---------------------------- MODULE Spec2Model ----------------------------
(***************************************************************************)
(* A model of mongorepo: the reflective EntityReflection helpers, the      *)
(* generic Repository over a MongoDB collection, and the in-memory         *)
(* MockRepository with its query matcher.                                  *)
(***************************************************************************)
EXTENDS Integers, Sequences, FiniteSets, TLC

VARIABLES
    etype,      \* the entity type T the repository is instantiated with
    cfgGiven,   \* the configuration as the caller filled it in (history)
    cfg,        \* *Config held by the Repository (mutated in place by New)
    rstate,     \* "unbuilt" | "ready" | "panicked"
    ent,        \* the entity the caller passes (what its *T pointer points to)
    store,      \* the MongoDB collection: _id -> stored document
    MemoryDb,   \* MockRepository.MemoryDb: key string -> entity value
    clock,      \* the wall clock read by time.Now()
    nextId,     \* number of ObjectIDs generated so far by primitive.NewObjectID()
    last,       \* record of the last call: operation, arguments, outcome (history)
    mq,         \* inputs and result of a matchesQuery evaluation
    procs       \* goroutines running EntityReflection calls: position, instance, locals

vars == <<etype, cfgGiven, cfg, rstate, ent, store, MemoryDb, clock, nextId, last, mq, procs>>

---------------------------------------------------------------------------
\* Bounds of the model.

MaxId == 1          \* ObjectIDs that primitive.NewObjectID() hands out
MaxTime == 2        \* last instant of the wall clock
MaxMockId == 2      \* ObjectIDs handed out while the MockRepository is in use
MaxQueryKeys == 2   \* keys of a query given to matchesQuery
NumProcs == 2       \* goroutines calling EntityReflection at the same time

ObjectIDs == 0..MaxId
NilObjectID == 0    \* primitive.NilObjectID, the zero value
Names == {"", "Jon"}

---------------------------------------------------------------------------
\* Entity types: a Go struct is a sequence of fields, each with a name, a
\* type, its bson tag (the comma-separated parts) and whether it is exported.

\* The EntityTest struct of the README.
EntityTest ==
    << [name |-> "ID",        type |-> "ObjectID", tag |-> <<"_id">>,                     exported |-> TRUE],
       [name |-> "CreatedAt", type |-> "Time",     tag |-> <<"created_at">>,              exported |-> TRUE],
       [name |-> "UpdatedAt", type |-> "Time",     tag |-> <<"updated_at", "omitempty">>, exported |-> TRUE],
       [name |-> "DeletedAt", type |-> "Time",     tag |-> <<"deleted_at", "omitempty">>, exported |-> TRUE],
       [name |-> "Name",      type |-> "string",   tag |-> <<"name">>,                    exported |-> TRUE] >>

EntityTypes == {EntityTest}

\* A record with the fields of the specification's matching example.
Person ==
    << [name |-> "Name", type |-> "string", tag |-> <<"name">>, exported |-> TRUE],
       [name |-> "Age",  type |-> "int",    tag |-> <<"age">>,  exported |-> TRUE] >>

FieldNames(T) == {T[k].name : k \in 1..Len(T)}

\* Go's zero value of a field type.
ZeroOf(type) == IF type = "string" THEN "" ELSE 0

ZeroEntity(T) ==
    [f \in FieldNames(T) |-> ZeroOf(T[CHOOSE k \in 1..Len(T) : T[k].name = f].type)]

\* reflect.Value.FieldByName: the index of the field of that name, 0 for the
\* invalid Value (no such field; in particular for the empty name).
FieldByName(T, name) ==
    IF \E k \in 1..Len(T) : T[k].name = name
    THEN CHOOSE k \in 1..Len(T) : T[k].name = name
    ELSE 0

TimeFields(T) == {T[k].name : k \in {j \in 1..Len(T) : T[j].type = "Time"}}

\* The values of the time.Time fields of an entity.
Timestamps(T, e) == [f \in TimeFields(T) |-> e[f]]

\* The struct tag as written: its parts joined by commas ("" when untagged).
RECURSIVE JoinTag(_)
JoinTag(parts) ==
    IF Len(parts) = 0 THEN ""
    ELSE IF Len(parts) = 1 THEN parts[1]
    ELSE parts[1] \o "," \o JoinTag(Tail(parts))

---------------------------------------------------------------------------
\* primitive.ObjectID conversions.

HexDigits == <<"0", "1", "2", "3", "4", "5", "6", "7", "8", "9", "a", "b", "c", "d", "e", "f">>

RECURSIVE HexOf(_, _)
HexOf(n, width) ==
    IF width = 0 THEN "" ELSE HexOf(n \div 16, width - 1) \o HexDigits[(n % 16) + 1]

\* The hex form of every ObjectID of the model, computed once.
HexTable == [id \in 0..(MaxId + MaxMockId) |-> HexOf(id, 24)]

\* ObjectID.Hex(): the 12 bytes as 24 hexadecimal digits.
Hex(id) == HexTable[id]

\* ObjectID.String(): fmt.Sprintf("ObjectID(%q)", id.Hex()).
String(id) == "ObjectID(\"" \o Hex(id) \o "\")"

---------------------------------------------------------------------------
\* EntityReflection: each operation yields the entity after the call and
\* whether the call panicked.

\* A GetID that yields the zero ObjectID for a missing or wrongly typed
\* identifier field instead of panicking.
GetID_Coerce(c, T, e) ==
    LET k == FieldByName(T, c.IdField) IN
    IF k = 0 THEN [panic |-> FALSE, id |-> NilObjectID]
    ELSE IF T[k].type # "ObjectID" THEN [panic |-> FALSE, id |-> NilObjectID]
    ELSE [panic |-> FALSE, id |-> e[c.IdField]]

\* EntityReflection.GetID
GetID(c, T, e) ==
    LET k == FieldByName(T, c.IdField) IN
    IF k = 0 THEN [panic |-> TRUE, id |-> NilObjectID]
    ELSE IF T[k].type # "ObjectID" THEN [panic |-> TRUE, id |-> NilObjectID]
    ELSE IF ~T[k].exported THEN [panic |-> TRUE, id |-> NilObjectID]  \* Interface() on an unexported field
    ELSE [panic |-> FALSE, id |-> e[c.IdField]]

\* A SetNewID that stores the zero ObjectID instead of the generated one.
SetNewID_Nil(c, T, e, newId) ==
    LET k == FieldByName(T, c.IdField) IN
    IF k = 0 \/ ~T[k].exported \/ T[k].type # "ObjectID"
    THEN [panic |-> TRUE, e |-> e]
    ELSE [panic |-> FALSE, e |-> [e EXCEPT ![c.IdField] = NilObjectID]]

\* EntityReflection.SetNewID; newId is the value primitive.NewObjectID() returns.
SetNewID(c, T, e, newId) ==
    LET k == FieldByName(T, c.IdField) IN
    IF k = 0 \/ ~T[k].exported \/ T[k].type # "ObjectID"
    THEN [panic |-> TRUE, e |-> e]
    ELSE [panic |-> FALSE, e |-> [e EXCEPT ![c.IdField] = newId]]

\* A setTimeStampField that returns quietly when given the empty field name.
setTimeStampField_SkipEmpty(T, e, field, now) ==
    LET k == FieldByName(T, field) IN
    IF field = "" THEN [panic |-> FALSE, e |-> e]
    ELSE IF k = 0 \/ T[k].type # "Time" \/ ~T[k].exported THEN [panic |-> TRUE, e |-> e]
    ELSE [panic |-> FALSE, e |-> [e EXCEPT ![field] = now]]

\* A setTimeStampField that returns quietly when the field is missing or is
\* not a time.Time.
setTimeStampField_Quiet(T, e, field, now) ==
    LET k == FieldByName(T, field) IN
    IF k = 0 THEN [panic |-> FALSE, e |-> e]
    ELSE IF T[k].type # "Time" THEN [panic |-> FALSE, e |-> e]
    ELSE [panic |-> FALSE, e |-> [e EXCEPT ![field] = now]]

\* EntityReflection.setTimeStampField; now is the value time.Now() returns.
setTimeStampField(T, e, field, now) ==
    LET k == FieldByName(T, field) IN
    IF k = 0 THEN [panic |-> TRUE, e |-> e]
    ELSE IF T[k].type # "Time" THEN [panic |-> TRUE, e |-> e]
    ELSE IF ~T[k].exported THEN [panic |-> TRUE, e |-> e]   \* Set() on an unexported field
    ELSE [panic |-> FALSE, e |-> [e EXCEPT ![field] = now]]

\* EntityReflection.SetUpdateAt
SetUpdateAt(c, T, e, now) == setTimeStampField(T, e, c.UpdatedAtField, now)

\* EntityReflection.SetCreatedAt
SetCreatedAt(c, T, e, now) == setTimeStampField(T, e, c.CreatedAtField, now)

\* EntityReflection.SetDeletedAt
SetDeletedAt(c, T, e, now) == setTimeStampField(T, e, c.DeletedAtField, now)

---------------------------------------------------------------------------
\* The MongoDB collection behind the Repository (mongo-driver): documents
\* are keyed by _id; a document maps bson keys to values.

\* The bson key of a field: the first part of its tag.
BsonKey(fd) == IF Len(fd.tag) > 0 THEN fd.tag[1] ELSE fd.name

OmitEmpty(fd) == \E k \in 2..Len(fd.tag) : fd.tag[k] = "omitempty"

\* bson.Marshal of an entity: a field tagged omitempty is left out when zero.
Marshal(T, e) ==
    LET kept == {k \in 1..Len(T) : ~(OmitEmpty(T[k]) /\ e[T[k].name] = ZeroOf(T[k].type))} IN
    [key \in {BsonKey(T[k]) : k \in kept} |->
        e[T[CHOOSE k \in kept : BsonKey(T[k]) = key].name]]

\* Decode of a stored document into a fresh entity: absent keys stay zero.
Decode(T, doc) ==
    [f \in FieldNames(T) |->
        LET fd == T[FieldByName(T, f)] IN
        IF BsonKey(fd) \in DOMAIN doc THEN doc[BsonKey(fd)] ELSE ZeroOf(fd.type)]

\* Collection.InsertOne: ok is whether the transport works; a duplicate _id is
\* a write error.
InsertOne(st, doc, ok) ==
    IF ok /\ doc["_id"] \notin DOMAIN st
    THEN [err |-> FALSE, store |-> [id \in DOMAIN st \cup {doc["_id"]} |->
                                        IF id = doc["_id"] THEN doc ELSE st[id]]]
    ELSE [err |-> TRUE, store |-> st]

\* Collection.UpdateByID(id, {"$set": doc}): sets the keys of doc on the
\* document with that _id; matching nothing is no error.
UpdateByID(st, id, doc, ok) ==
    IF ~ok THEN [err |-> TRUE, store |-> st]
    ELSE IF id \notin DOMAIN st THEN [err |-> FALSE, store |-> st]
    ELSE [err |-> FALSE,
          store |-> [st EXCEPT ![id] =
                        [key \in DOMAIN st[id] \cup DOMAIN doc |->
                            IF key \in DOMAIN doc THEN doc[key] ELSE st[id][key]]]]

\* Collection.DeleteOne({"_id": id}).
DeleteOne(st, id, ok) ==
    IF ~ok THEN [err |-> TRUE, store |-> st]
    ELSE [err |-> FALSE, store |-> [x \in DOMAIN st \ {id} |-> st[x]]]

\* Collection.FindOne({"_id": id}).Decode(&entity): <<>> is the nil result
\* (no document, or an error), <<e>> a pointer to the decoded entity.
FindOneById(T, st, id, ok) ==
    IF ok /\ id \in DOMAIN st THEN <<Decode(T, st[id])>> ELSE <<>>

---------------------------------------------------------------------------
\* Repository

\* The collection name New derives from the type name:
\* inflection.Plural(strcase.ToSnake(name)).
DefaultCollectionName(T) == IF T = EntityTest THEN "entity_tests" ELSE "entities"

\* A New that also gives the created-at and updated-at roles default names
\* and accepts an empty database name.
NewResult_DefaultRoles(c, T) ==
    LET c1 == IF c.IdField = "" THEN [c EXCEPT !.IdField = "ID"] ELSE c
        c2 == IF c1.CreatedAtField = "" THEN [c1 EXCEPT !.CreatedAtField = "CreatedAt"] ELSE c1
        c3 == IF c2.UpdatedAtField = "" THEN [c2 EXCEPT !.UpdatedAtField = "UpdatedAt"] ELSE c2
        c4 == [c3 EXCEPT !.Context = "Background", !.CollectionName = DefaultCollectionName(T)]
    IN  IF ~c.MongoClient
        THEN [panic |-> TRUE, config |-> c3]
        ELSE [panic |-> FALSE, config |-> c4]

\* New: the configuration after the defaults, and whether New panics.
NewResult(c, T) ==
    LET c1 == IF c.IdField = "" THEN [c EXCEPT !.IdField = "ID"] ELSE c
        c2 == IF c1.Context = "nil" THEN [c1 EXCEPT !.Context = "Background"] ELSE c1
        c3 == IF c2.CollectionName = ""
              THEN [c2 EXCEPT !.CollectionName = DefaultCollectionName(T)] ELSE c2
    IN  IF ~c2.MongoClient \/ c2.DbName = ""
        THEN [panic |-> TRUE, config |-> c2]
        ELSE [panic |-> FALSE, config |-> c3]

\* NewEntityReflection: defaults the identifier field name in the shared
\* configuration (the entity is always a pointer to a struct here).
NewEntityReflection(c) == IF c.IdField = "" THEN [c EXCEPT !.IdField = "ID"] ELSE c

Call(name, id) == [call |-> name, id |-> id]

\* A Create that stamps CreatedAt whether or not the role is configured.
CreateResult_AlwaysStamp(c0, T, e, st, newId, now, ok) ==
    LET c  == NewEntityReflection(c0)
        r1 == SetNewID(c, T, e, newId)
        r2 == IF r1.panic THEN r1 ELSE setTimeStampField(T, r1.e, "CreatedAt", now)
        ins == InsertOne(st, Marshal(T, r2.e), ok)
    IN  IF r2.panic
        THEN [panic |-> TRUE, e |-> r2.e, store |-> st, err |-> FALSE, calls |-> <<>>,
              config |-> c, generated |-> ~r1.panic]
        ELSE [panic |-> FALSE, e |-> r2.e, store |-> ins.store, err |-> ins.err,
              calls |-> <<Call("InsertOne", r2.e[c.IdField])>>,
              config |-> c, generated |-> TRUE]

\* A Create that puts the entity back as it was when the insert fails.
CreateResult_Rollback(c0, T, e, st, newId, now, ok) ==
    LET c  == NewEntityReflection(c0)
        r1 == SetNewID(c, T, e, newId)
        r2 == IF r1.panic THEN r1
              ELSE IF c.CreatedAtField # "" THEN SetCreatedAt(c, T, r1.e, now)
              ELSE r1
        ins == InsertOne(st, Marshal(T, r2.e), ok)
    IN  IF r2.panic
        THEN [panic |-> TRUE, e |-> r2.e, store |-> st, err |-> FALSE, calls |-> <<>>,
              config |-> c, generated |-> ~r1.panic]
        ELSE [panic |-> FALSE, e |-> IF ins.err THEN e ELSE r2.e,
              store |-> ins.store, err |-> ins.err,
              calls |-> <<Call("InsertOne", r2.e[c.IdField])>>,
              config |-> c, generated |-> TRUE]

\* Repository.Create on entity e: newId is what NewObjectID() would return,
\* now what time.Now() returns, ok whether the store call goes through.
CreateResult(c0, T, e, st, newId, now, ok) ==
    LET c  == NewEntityReflection(c0)
        r1 == SetNewID(c, T, e, newId)
        r2 == IF r1.panic THEN r1
              ELSE IF c.CreatedAtField # "" THEN SetCreatedAt(c, T, r1.e, now)
              ELSE r1
        ins == InsertOne(st, Marshal(T, r2.e), ok)
    IN  IF r2.panic
        THEN [panic |-> TRUE, e |-> r2.e, store |-> st, err |-> FALSE, calls |-> <<>>,
              config |-> c, generated |-> ~r1.panic]
        ELSE [panic |-> FALSE, e |-> r2.e, store |-> ins.store, err |-> ins.err,
              calls |-> <<Call("InsertOne", r2.e[c.IdField])>>,
              config |-> c, generated |-> TRUE]

\* Repository.Update
UpdateResult(c0, T, e, st, now, ok) ==
    LET c  == NewEntityReflection(c0)
        r1 == IF c.UpdatedAtField # "" THEN SetUpdateAt(c, T, e, now)
              ELSE [panic |-> FALSE, e |-> e]
        g  == GetID(c, T, r1.e)
        upd == UpdateByID(st, g.id, Marshal(T, r1.e), ok)
    IN  IF r1.panic \/ g.panic
        THEN [panic |-> TRUE, e |-> r1.e, store |-> st, err |-> FALSE, calls |-> <<>>,
              config |-> c]
        ELSE [panic |-> FALSE, e |-> r1.e, store |-> upd.store, err |-> upd.err,
              calls |-> <<Call("UpdateByID", g.id)>>, config |-> c]

\* A Delete that removes the document even when soft deletes are configured.
DeleteResult_Hard(c0, T, e, st, now, ok) ==
    LET c  == NewEntityReflection(c0)
        g  == GetID(c, T, e)
        del == DeleteOne(st, g.id, ok)
    IN  IF g.panic
        THEN [panic |-> TRUE, e |-> e, store |-> st, err |-> FALSE,
              calls |-> <<>>, config |-> c]
        ELSE [panic |-> FALSE, e |-> e, store |-> del.store, err |-> del.err,
              calls |-> <<Call("DeleteOne", g.id)>>, config |-> c]

\* A Delete whose hard removal is keyed by the zero ObjectID instead of the
\* entity's identifier.
DeleteResult_WrongKey(c0, T, e, st, now, ok) ==
    LET c  == NewEntityReflection(c0)
        g  == GetID(c, T, e)
        del == DeleteOne(st, NilObjectID, ok)
    IN  IF c.DeletedAtField # ""
        THEN UpdateResult(c, T, SetDeletedAt(c, T, e, now).e, st, now, ok)
        ELSE IF g.panic
             THEN [panic |-> TRUE, e |-> e, store |-> st, err |-> FALSE,
                   calls |-> <<>>, config |-> c]
             ELSE [panic |-> FALSE, e |-> e, store |-> del.store, err |-> del.err,
                   calls |-> <<Call("DeleteOne", NilObjectID)>>, config |-> c]

\* Repository.Delete
DeleteResult(c0, T, e, st, now, ok) ==
    LET c  == NewEntityReflection(c0)
        r0 == SetDeletedAt(c, T, e, now)
        g  == GetID(c, T, e)
        del == DeleteOne(st, g.id, ok)
    IN  IF c.DeletedAtField # ""
        THEN IF r0.panic
             THEN [panic |-> TRUE, e |-> r0.e, store |-> st, err |-> FALSE,
                   calls |-> <<>>, config |-> c]
             ELSE UpdateResult(c, T, r0.e, st, now, ok)
        ELSE IF g.panic
             THEN [panic |-> TRUE, e |-> e, store |-> st, err |-> FALSE,
                   calls |-> <<>>, config |-> c]
             ELSE [panic |-> FALSE, e |-> e, store |-> del.store, err |-> del.err,
                   calls |-> <<Call("DeleteOne", g.id)>>, config |-> c]

\* The record of a call: the operation, its outcome, the store calls it
\* issued, whether a document with the entity's identifier was stored when
\* the call began and, for a query, its result.
Last(op, r, res) ==
    [op |-> op, panic |-> r.panic, err |-> r.err, calls |-> r.calls,
     stored |-> GetID(NewEntityReflection(cfg), etype, ent).id \in DOMAIN store,
     res |-> res]

NoCall == [op |-> "none", panic |-> FALSE, err |-> FALSE, calls |-> <<>>,
           stored |-> FALSE, res |-> <<>>]

\* The configurations a caller may pass to New.
Configs ==
    [MongoClient : BOOLEAN, DbName : {"", "test_db"}, CollectionName : {""},
     Context : {"nil"}, IdField : {"", "Name"},
     CreatedAtField : {"", "CreatedAt"}, UpdatedAtField : {"", "UpdatedAt"},
     DeletedAtField : {"", "DeletedAt"}]

Init ==
    /\ etype \in EntityTypes
    /\ cfgGiven \in Configs
    /\ cfg = cfgGiven
    /\ rstate = "unbuilt"
    /\ ent = ZeroEntity(etype)
    /\ store = <<>>
    /\ MemoryDb = <<>>
    /\ clock = 1
    /\ nextId = 0
    /\ last = NoCall
    /\ mq = <<>>
    /\ procs = <<>>

New ==
    /\ rstate = "unbuilt"
    /\ LET r == NewResult(cfg, etype) IN
        /\ cfg' = r.config
        /\ rstate' = IF r.panic THEN "panicked" ELSE "ready"
    /\ last' = NoCall
    /\ UNCHANGED <<procs, etype, cfgGiven, ent, store, MemoryDb, clock, nextId, mq>>

\* The caller turns to another entity value: a new struct with the
\* identifier and the name it chooses.
CallerNew ==
    /\ rstate = "ready"
    /\ \E id \in ObjectIDs, n \in Names :
        ent' = [ZeroEntity(etype) EXCEPT !["ID"] = id, !["Name"] = n]
    /\ last' = NoCall
    /\ UNCHANGED <<procs, etype, cfgGiven, cfg, rstate, store, MemoryDb, clock, nextId, mq>>

\* Time passes.
Tick ==
    /\ rstate = "ready"
    /\ clock < MaxTime
    /\ clock' = clock + 1
    /\ last' = NoCall
    /\ UNCHANGED <<procs, etype, cfgGiven, cfg, rstate, ent, store, MemoryDb, nextId, mq>>

Apply(op, r) ==
    /\ ent' = r.e
    /\ store' = r.store
    /\ cfg' = r.config
    /\ rstate' = IF r.panic THEN "panicked" ELSE rstate
    /\ last' = Last(op, r, <<>>)

Create ==
    /\ rstate = "ready"
    /\ nextId < MaxId
    /\ \E ok \in BOOLEAN :
        LET r == CreateResult(cfg, etype, ent, store, nextId + 1, clock, ok) IN
        /\ Apply("Create", r)
        /\ nextId' = IF r.generated THEN nextId + 1 ELSE nextId
    /\ UNCHANGED <<procs, etype, cfgGiven, MemoryDb, clock, mq>>

Update ==
    /\ rstate = "ready"
    /\ \E ok \in BOOLEAN :
        Apply("Update", UpdateResult(cfg, etype, ent, store, clock, ok))
    /\ UNCHANGED <<procs, etype, cfgGiven, MemoryDb, clock, nextId, mq>>

Delete ==
    /\ rstate = "ready"
    /\ \E ok \in BOOLEAN :
        Apply("Delete", DeleteResult(cfg, etype, ent, store, clock, ok))
    /\ UNCHANGED <<procs, etype, cfgGiven, MemoryDb, clock, nextId, mq>>

Next ==
    \/ New
    \/ Tick
    \/ CallerNew
    \/ Create
    \/ Update
    \/ Delete

Spec == Init /\ [][Next]_vars

---------------------------------------------------------------------------
\* EntityReflection used on its own: a caller builds one with
\* NewEntityReflection(config, entity) and calls its exported methods.

\* The configurations a caller may hand to NewEntityReflection.
ERConfigs ==
    [MongoClient : {TRUE}, DbName : {"test_db"}, CollectionName : {""},
     Context : {"nil"}, IdField : {"", "ID", "Name", "Missing"},
     CreatedAtField : {"", "CreatedAt", "Name"}, UpdatedAtField : {"", "UpdatedAt"},
     DeletedAtField : {"", "DeletedAt", "Missing"}]

InitER ==
    /\ etype \in EntityTypes
    /\ cfgGiven \in ERConfigs
    /\ cfg = cfgGiven
    /\ rstate = "ready"
    /\ ent = ZeroEntity(etype)
    /\ store = <<>>
    /\ MemoryDb = <<>>
    /\ clock = 1
    /\ nextId = 0
    /\ last = NoCall
    /\ mq = <<>>
    /\ procs = <<>>

ApplyER(op, r, res) ==
    /\ ent' = r.e
    /\ cfg' = NewEntityReflection(cfg)
    /\ rstate' = IF r.panic THEN "panicked" ELSE rstate
    /\ last' = Last(op, [panic |-> r.panic, err |-> FALSE, calls |-> <<>>], res)

CallSetNewID ==
    /\ rstate = "ready"
    /\ nextId < MaxId
    /\ LET r == SetNewID(NewEntityReflection(cfg), etype, ent, nextId + 1) IN
        /\ ApplyER("SetNewID", r, <<>>)
        /\ nextId' = IF r.panic THEN nextId ELSE nextId + 1
    /\ UNCHANGED <<procs, etype, cfgGiven, store, MemoryDb, clock, mq>>

CallGetID ==
    /\ rstate = "ready"
    /\ LET g == GetID(NewEntityReflection(cfg), etype, ent) IN
        ApplyER("GetID", [panic |-> g.panic, e |-> ent], IF g.panic THEN <<>> ELSE <<g.id>>)
    /\ UNCHANGED <<procs, etype, cfgGiven, store, MemoryDb, clock, nextId, mq>>

CallSetCreatedAt ==
    /\ rstate = "ready"
    /\ ApplyER("SetCreatedAt", SetCreatedAt(NewEntityReflection(cfg), etype, ent, clock), <<>>)
    /\ UNCHANGED <<procs, etype, cfgGiven, store, MemoryDb, clock, nextId, mq>>

CallSetUpdateAt ==
    /\ rstate = "ready"
    /\ ApplyER("SetUpdateAt", SetUpdateAt(NewEntityReflection(cfg), etype, ent, clock), <<>>)
    /\ UNCHANGED <<procs, etype, cfgGiven, store, MemoryDb, clock, nextId, mq>>

CallSetDeletedAt ==
    /\ rstate = "ready"
    /\ ApplyER("SetDeletedAt", SetDeletedAt(NewEntityReflection(cfg), etype, ent, clock), <<>>)
    /\ UNCHANGED <<procs, etype, cfgGiven, store, MemoryDb, clock, nextId, mq>>

NextER ==
    \/ Tick
    \/ CallerNew
    \/ CallSetNewID
    \/ CallGetID
    \/ CallSetCreatedAt
    \/ CallSetUpdateAt
    \/ CallSetDeletedAt

SpecER == InitER /\ [][NextER]_vars

---------------------------------------------------------------------------
\* MockRepository: MemoryDb maps a key string to an entity value.

\* The configurations a caller may pass to NewMockRepository.
MockConfigs ==
    [IdField : {"", "Name"}, CreatedAtField : {"", "CreatedAt"},
     UpdatedAtField : {"", "UpdatedAt"}, DeletedAtField : {""}]

\* NewMockRepository: the configuration after its defaults.
NewMockRepository(c) ==
    LET c1 == IF c.IdField = "" THEN [c EXCEPT !.IdField = "ID"] ELSE c
        c2 == IF c1.CreatedAtField = "" THEN [c1 EXCEPT !.CreatedAtField = "CreatedAt"] ELSE c1
    IN  IF c2.UpdatedAtField = "" THEN [c2 EXCEPT !.UpdatedAtField = "UpdatedAt"] ELSE c2

\* MockRepository.getEntityObjectID
getEntityObjectID(c, T, e) ==
    LET k == FieldByName(T, c.IdField) IN
    IF k = 0 THEN [panic |-> FALSE, id |-> NilObjectID]
    ELSE IF T[k].type # "ObjectID" THEN [panic |-> FALSE, id |-> NilObjectID]
    ELSE IF ~T[k].exported THEN [panic |-> TRUE, id |-> NilObjectID]  \* Interface() on an unexported field
    ELSE [panic |-> FALSE, id |-> e[c.IdField]]

\* MockRepository.setNewObjectID; newId is the value NewObjectID() returns.
setNewObjectID(c, T, e, newId) ==
    LET k == FieldByName(T, c.IdField) IN
    IF k # 0 /\ T[k].exported /\ T[k].type = "ObjectID"
    THEN [err |-> FALSE, e |-> [e EXCEPT ![c.IdField] = newId]]
    ELSE [err |-> TRUE, e |-> e]

\* MockRepository.setEntityTimestamp
setEntityTimestamp(T, e, field, now) ==
    LET k == FieldByName(T, field) IN
    IF k = 0 THEN [panic |-> FALSE, e |-> e]
    ELSE IF T[k].type # "Time" THEN [panic |-> FALSE, e |-> e]
    ELSE IF ~T[k].exported THEN [panic |-> TRUE, e |-> e]   \* Set() on an unexported field
    ELSE [panic |-> FALSE, e |-> [e EXCEPT ![field] = now]]

\* m.MemoryDb[key] = value
Put(db, key, value) ==
    [k \in DOMAIN db \cup {key} |-> IF k = key THEN value ELSE db[k]]

\* A FindById that looks the entity up under id.String().
MockFindByIdResult_String(db, id) ==
    IF String(id) \in DOMAIN db THEN <<db[String(id)]>> ELSE <<>>

\* A FindById that hands out a pointer to the stored entry itself (what a
\* map of pointers would give) instead of a pointer to a copy.
MockFindByIdResult_Shared(db, id) ==
    IF Hex(id) \in DOMAIN db THEN <<[ref |-> Hex(id)]>> ELSE <<>>

\* MockRepository.FindById: <<>> is nil, <<e>> a pointer to a copy of the entry.
MockFindByIdResult(db, id) ==
    IF Hex(id) \in DOMAIN db THEN <<db[Hex(id)]>> ELSE <<>>

\* MockRepository.Create; the error of setNewObjectID is dropped.
MockCreateResult(c, T, e, db, newId, now) ==
    LET r1 == setNewObjectID(c, T, e, newId)
        r2 == setEntityTimestamp(T, r1.e, c.CreatedAtField, now)
        g  == getEntityObjectID(c, T, r2.e)
    IN  IF r2.panic \/ g.panic
        THEN [panic |-> TRUE, e |-> r2.e, db |-> db, err |-> FALSE, generated |-> ~r1.err]
        ELSE [panic |-> FALSE, e |-> r2.e, db |-> Put(db, Hex(g.id), r2.e), err |-> FALSE,
              generated |-> ~r1.err]

\* An Update that writes the entry under id.String() whether or not one is
\* stored there.
MockUpdateResult_Upsert(c, T, e, db, now) ==
    LET g == getEntityObjectID(c, T, e)
        r == IF g.panic THEN [panic |-> TRUE, e |-> e]
             ELSE setEntityTimestamp(T, e, c.UpdatedAtField, now)
    IN  IF r.panic THEN [panic |-> TRUE, e |-> r.e, db |-> db, err |-> FALSE]
        ELSE [panic |-> FALSE, e |-> r.e, db |-> Put(db, String(g.id), r.e), err |-> FALSE]

\* MockRepository.Update: the entry is looked up under id.String().
MockUpdateResult(c, T, e, db, now) ==
    LET g == getEntityObjectID(c, T, e)
        r == IF g.panic THEN [panic |-> TRUE, e |-> e]
             ELSE setEntityTimestamp(T, e, c.UpdatedAtField, now)
    IN  IF r.panic THEN [panic |-> TRUE, e |-> r.e, db |-> db, err |-> FALSE]
        ELSE IF String(g.id) \in DOMAIN db
        THEN [panic |-> FALSE, e |-> r.e, db |-> Put(db, String(g.id), r.e), err |-> FALSE]
        ELSE [panic |-> FALSE, e |-> r.e, db |-> db, err |-> TRUE]

\* MockRepository.Delete: the key is the hex form of a new ObjectID.
MockDeleteResult(c, T, e, db, newId) ==
    [panic |-> FALSE, e |-> e, db |-> [k \in DOMAIN db \ {Hex(newId)} |-> db[k]],
     err |-> FALSE]

\* The record of a MockRepository call; stored: whether an entry was held
\* under the hex form of the entity's identifier when the call began.
MockLast(op, r, res) ==
    [op |-> op, panic |-> r.panic, err |-> r.err, calls |-> <<>>,
     stored |-> Hex(getEntityObjectID(cfg, etype, ent).id) \in DOMAIN MemoryDb,
     res |-> res]

InitMock ==
    /\ etype \in EntityTypes
    /\ cfgGiven \in MockConfigs
    /\ cfg = cfgGiven
    /\ rstate = "unbuilt"
    /\ ent = ZeroEntity(etype)
    /\ store = <<>>
    /\ MemoryDb = <<>>
    /\ clock = 1
    /\ nextId = 0
    /\ last = NoCall
    /\ mq = <<>>
    /\ procs = <<>>

NewMock ==
    /\ rstate = "unbuilt"
    /\ cfg' = NewMockRepository(cfg)
    /\ rstate' = "ready"
    /\ last' = NoCall
    /\ UNCHANGED <<procs, etype, cfgGiven, ent, store, MemoryDb, clock, nextId, mq>>

\* The caller changes the Name of the entity it holds.
CallerEdit ==
    /\ rstate = "ready"
    /\ \E n \in Names \ {ent["Name"]} : ent' = [ent EXCEPT !["Name"] = n]
    /\ last' = NoCall
    /\ UNCHANGED <<procs, etype, cfgGiven, cfg, rstate, store, MemoryDb, clock, nextId, mq>>

ApplyMock(op, r) ==
    /\ ent' = r.e
    /\ MemoryDb' = r.db
    /\ rstate' = IF r.panic THEN "panicked" ELSE rstate
    /\ last' = MockLast(op, r, <<>>)

MockCreate ==
    /\ rstate = "ready"
    /\ nextId < MaxMockId
    /\ LET r == MockCreateResult(cfg, etype, ent, MemoryDb, nextId + 1, clock) IN
        /\ ApplyMock("Create", r)
        /\ nextId' = IF r.generated THEN nextId + 1 ELSE nextId
    /\ UNCHANGED <<procs, etype, cfgGiven, cfg, store, clock, mq>>

MockUpdate ==
    /\ rstate = "ready"
    /\ ApplyMock("Update", MockUpdateResult(cfg, etype, ent, MemoryDb, clock))
    /\ UNCHANGED <<procs, etype, cfgGiven, cfg, store, clock, nextId, mq>>

MockDelete ==
    /\ rstate = "ready"
    /\ nextId < MaxMockId
    /\ ApplyMock("Delete", MockDeleteResult(cfg, etype, ent, MemoryDb, nextId + 1))
    /\ nextId' = nextId + 1
    /\ UNCHANGED <<procs, etype, cfgGiven, cfg, store, clock, mq>>

MockCallerNew ==
    /\ rstate = "ready"
    /\ \E id \in 0..MaxMockId, n \in Names :
        ent' = [ZeroEntity(etype) EXCEPT !["ID"] = id, !["Name"] = n]
    /\ last' = NoCall
    /\ UNCHANGED <<procs, etype, cfgGiven, cfg, rstate, store, MemoryDb, clock, nextId, mq>>

NextMock ==
    \/ NewMock
    \/ Tick
    \/ MockCallerNew
    \/ CallerEdit
    \/ MockCreate
    \/ MockUpdate
    \/ MockDelete

SpecMock == InitMock /\ [][NextMock]_vars

---------------------------------------------------------------------------
\* Properties of the Repository.

CallNames(calls) == {calls[k].call : k \in 1..Len(calls)}

\* C1: Delete with the deleted-at role enabled never issues DeleteOne. It
\* stamps the deleted-at field on the record and issues only one UpdateByID
\* keyed by the record's identifier; a document stored under that identifier
\* is still stored afterwards and, when the update went through, FindById
\* returns it with the deleted-at field populated.
C1_SoftDeleteNeverRemoves ==
    (last.op = "Delete" /\ cfg.DeletedAtField # "") =>
        /\ "DeleteOne" \notin CallNames(last.calls)
        /\ "InsertOne" \notin CallNames(last.calls)
        /\ ~last.panic =>
            /\ last.calls = <<Call("UpdateByID", GetID(cfg, etype, ent).id)>>
            /\ ent[cfg.DeletedAtField] # 0
            /\ last.stored =>
                LET found == FindOneById(etype, store, GetID(cfg, etype, ent).id, TRUE) IN
                /\ found # <<>>
                /\ ~last.err => found[1][cfg.DeletedAtField] # 0

C1_Witness ==
    /\ last.op = "Delete"
    /\ cfg.DeletedAtField = "DeletedAt"
    /\ ~last.panic /\ ~last.err /\ last.stored
    /\ ent["ID"] \in DOMAIN store
    /\ "deleted_at" \in DOMAIN store[ent["ID"]]

\* C2: Delete with the deleted-at role disabled issues exactly one DeleteOne,
\* keyed by the record's own identifier, and no update; when the removal
\* went through, FindById with that identifier returns nothing.
C2_HardDeleteRemoves ==
    (last.op = "Delete" /\ cfg.DeletedAtField = "" /\ ~last.panic) =>
        /\ last.calls = <<Call("DeleteOne", GetID(cfg, etype, ent).id)>>
        /\ ~last.err =>
            FindOneById(etype, store, GetID(cfg, etype, ent).id, TRUE) = <<>>

C2_Witness ==
    /\ last.op = "Delete"
    /\ cfg.DeletedAtField = ""
    /\ ~last.panic /\ ~last.err /\ last.stored
    /\ ent["ID"] \notin DOMAIN store

\* C6: after a Create that did not panic, the identifier field holds a
\* non-zero ObjectID, and GetID returns exactly the value NewObjectID()
\* produced for that call (the nextId-th identifier).
C6_CreateAssignsIdentifier ==
    (last.op = "Create" /\ ~last.panic) =>
        /\ ent[cfg.IdField] # NilObjectID
        /\ GetID(cfg, etype, ent) = [panic |-> FALSE, id |-> nextId]
        /\ last.calls = <<Call("InsertOne", nextId)>>

C6_Witness ==
    /\ last.op = "Create"
    /\ ~last.panic
    /\ ent["ID"] = 1

StampedDisabledRole(l, c) ==
    \/ l.op = "SetCreatedAt" /\ c.CreatedAtField = ""
    \/ l.op = "SetUpdateAt" /\ c.UpdatedAtField = ""
    \/ l.op = "SetDeletedAt" /\ c.DeletedAtField = ""

---------------------------------------------------------------------------
\* Properties of the MockRepository.

\* The configured identifier field exists, is settable and is an ObjectID.
ValidIdField(c, T) ==
    LET k == FieldByName(T, c.IdField) IN
    k # 0 /\ T[k].exported /\ T[k].type = "ObjectID"

\* C3: round trip. After a Create on a record with a valid identifier field,
\* FindById with the identifier Create assigned returns a record equal to
\* the caller's instance as Create left it, which differs from the record
\* passed in only in the identifier and created-at fields; the entries
\* stored by earlier Creates are still there unchanged.
C3_CreateFindByIdRoundTrip ==
    [][(last'.op = "Create" /\ ValidIdField(cfg, etype)) =>
        /\ ent'[cfg.IdField] = nextId'
        /\ nextId' = nextId + 1
        /\ MockFindByIdResult(MemoryDb', ent'[cfg.IdField]) = <<ent'>>
        /\ \A f \in FieldNames(etype) \ {cfg.IdField, cfg.CreatedAtField} :
              ent'[f] = ent[f]
        /\ \A id \in 0..nextId :
              MockFindByIdResult(MemoryDb, id) # <<>> =>
                  MockFindByIdResult(MemoryDb', id) = MockFindByIdResult(MemoryDb, id)]_vars

C3_Witness ==
    /\ last.op = "Create"
    /\ ValidIdField(cfg, etype)
    /\ nextId = 2
    /\ ent["Name"] = "Jon"
    /\ MockFindByIdResult(MemoryDb, 2) = <<ent>>
    /\ MockFindByIdResult(MemoryDb, 1) # <<>>

\* C4: Update of a record stored by an earlier Create succeeds and replaces
\* the entry under the record's identifier, so FindById returns the updated
\* values; Update reports not-found only when no entry with the record's
\* identifier is stored.
C4_UpdateReplacesStoredEntry ==
    (last.op = "Update" /\ ValidIdField(cfg, etype)) =>
        /\ last.stored =>
            /\ ~last.err
            /\ MockFindByIdResult(MemoryDb, ent[cfg.IdField]) = <<ent>>
        /\ last.err => ~last.stored

\* C5: Delete of a record stored by an earlier Create, with the deleted-at
\* role disabled, removes the entry: FindById with the record's identifier
\* returns nothing afterwards.
C5_DeleteRemovesStoredEntry ==
    (/\ last.op = "Delete"
     /\ cfgGiven.DeletedAtField = ""
     /\ ValidIdField(cfg, etype)
     /\ last.stored) =>
        MockFindByIdResult(MemoryDb, ent[cfg.IdField]) = <<>>

\* C8: a mock built with CreatedAtField and UpdatedAtField empty never
\* alters a time.Time field of a record in Create or Update.
C8_MockDisabledRolesNotWritten ==
    [][(/\ last'.op \in {"Create", "Update"}
        /\ cfgGiven.CreatedAtField = ""
        /\ cfgGiven.UpdatedAtField = "") =>
            Timestamps(etype, ent') = Timestamps(etype, ent)]_vars

---------------------------------------------------------------------------
\* matchesQuery, the query matcher of the MockRepository.

\* getBsonTagName: the bson tag as written, the field name when there is none.
getBsonTagName(fd) ==
    LET tag == JoinTag(fd.tag) IN
    IF tag = "" THEN fd.name ELSE tag

\* reflect.DeepEqual(field.Interface(), value): same dynamic type, same value.
\* A query value carries its type.
DeepEqual(type, fieldValue, value) == value.type = type /\ value.val = fieldValue

\* The inner loop: the first field at index i or later whose tag name is key,
\* 0 when the loop ends without one.
RECURSIVE FirstTagged(_, _, _)
FirstTagged(T, key, i) ==
    IF i > Len(T) THEN 0
    ELSE IF getBsonTagName(T[i]) = key THEN i
    ELSE FirstTagged(T, key, i + 1)

\* The outer loop over the remaining keys of the query.
RECURSIVE MatchKeys(_, _, _, _)
MatchKeys(T, entity, query, keys) ==
    IF keys = {} THEN TRUE
    ELSE LET key == CHOOSE k \in keys : TRUE
             i   == FirstTagged(T, key, 1)
         IN  IF i = 0 THEN FALSE
             ELSE IF ~DeepEqual(T[i].type, entity[T[i].name], query[key]) THEN FALSE
             ELSE MatchKeys(T, entity, query, keys \ {key})

\* matchesQuery(entity, query)
matchesQuery(T, entity, query) == MatchKeys(T, entity, query, DOMAIN query)

\* The values a field of a type takes in the entities given to matchesQuery.
ValuesOf(type) ==
    IF type = "string" THEN Names
    ELSE IF type = "int" THEN {5, 6}
    ELSE {0, 1}

MatchTypes == {EntityTest, Person}

MatchEntities(T) ==
    IF T = Person
    THEN [Name : ValuesOf("string"), Age : ValuesOf("int")]
    ELSE [ID : {NilObjectID}, CreatedAt : {0}, UpdatedAt : ValuesOf("Time"),
          DeletedAt : {0}, Name : ValuesOf("string")]

QueryKeys == {"name", "age", "missingField", "updated_at", "updated_at,omitempty"}

QueryValues ==
    {[type |-> "string", val |-> "Jon"], [type |-> "int", val |-> 5],
     [type |-> "int", val |-> 6], [type |-> "Time", val |-> 1],
     [type |-> "int", val |-> 1]}

\* bson.M values with at most MaxQueryKeys keys.
Queries ==
    UNION {[K -> QueryValues] :
              K \in {X \in SUBSET QueryKeys : Cardinality(X) <= MaxQueryKeys}}

InitMatch ==
    /\ etype \in MatchTypes
    /\ mq \in [entity : MatchEntities(etype), query : Queries, done : {FALSE}, result : {FALSE}]
    /\ procs = <<>>
    /\ cfgGiven = <<>>
    /\ cfg = <<>>
    /\ rstate = "ready"
    /\ ent = <<>>
    /\ store = <<>>
    /\ MemoryDb = <<>>
    /\ clock = 1
    /\ nextId = 0
    /\ last = NoCall

MatchesQuery ==
    /\ ~mq.done
    /\ mq' = [mq EXCEPT !.done = TRUE,
                        !.result = matchesQuery(etype, mq.entity, mq.query)]
    /\ UNCHANGED <<procs, etype, cfgGiven, cfg, rstate, ent, store, MemoryDb, clock, nextId, last>>

NextMatch == MatchesQuery

SpecMatch == InitMatch /\ [][NextMatch]_vars

\* C10: matchesQuery returns true exactly when every key of the filter is
\* the serialized (bson) name of some field of the record and that field's
\* value is deeply equal to the filter's value for the key.
C10_MatchesIffEveryKeyEqual ==
    mq.done =>
        (mq.result <=>
            \A key \in DOMAIN mq.query :
                \E k \in 1..Len(etype) :
                    /\ BsonKey(etype[k]) = key
                    /\ DeepEqual(etype[k].type, mq.entity[etype[k].name], mq.query[key]))

---------------------------------------------------------------------------
\* The Repository given a configuration whose role names may not fit the
\* entity type: a name of no field ("Missing") or of a field of another type
\* ("Name", a string).

MisConfigs ==
    [MongoClient : {TRUE}, DbName : {"test_db"}, CollectionName : {""},
     Context : {"nil"}, IdField : {"", "Name", "Missing"},
     CreatedAtField : {"", "CreatedAt", "Name"},
     UpdatedAtField : {"", "UpdatedAt", "Missing"},
     DeletedAtField : {"", "DeletedAt", "Name"}]

InitMis ==
    /\ etype \in EntityTypes
    /\ cfgGiven \in MisConfigs
    /\ cfg = cfgGiven
    /\ rstate = "unbuilt"
    /\ ent = ZeroEntity(etype)
    /\ store = <<>>
    /\ MemoryDb = <<>>
    /\ clock = 1
    /\ nextId = 0
    /\ last = NoCall
    /\ mq = <<>>
    /\ procs = <<>>

SpecMis == InitMis /\ [][Next]_vars

\* The field a role name refers to exists, is exported and has the type.
ValidField(T, name, type) ==
    LET k == FieldByName(T, name) IN
    k # 0 /\ T[k].exported /\ T[k].type = type

\* C11: Create, Update and Delete on a record whose configured identifier
\* field is missing or is not an ObjectID panic; the field named by the
\* configuration keeps its value (nothing is coerced) and the call issues no
\* InsertOne, UpdateByID or DeleteOne: the collection is as it was.
C11_BadIdentifierFieldPanics ==
    [][(/\ last'.op \in {"Create", "Update", "Delete"}
        /\ ~ValidField(etype, cfg'.IdField, "ObjectID")) =>
            /\ last'.panic
            /\ rstate' = "panicked"
            /\ last'.calls = <<>>
            /\ store' = store
            /\ nextId' = nextId
            /\ cfg'.IdField \in FieldNames(etype) => ent'[cfg'.IdField] = ent[cfg'.IdField]]_vars

C11_Witness ==
    /\ last.op = "Update"
    /\ cfg.IdField = "Name"
    /\ cfg.UpdatedAtField = "UpdatedAt"
    /\ rstate = "panicked"
    /\ ent["UpdatedAt"] # 0
    /\ ent["Name"] = "Jon"

\* The timestamp roles a call stamps, in the order it stamps them.
StampedRoles(op, c) ==
    IF op = "Create" THEN <<c.CreatedAtField>>
    ELSE IF op = "Update" THEN <<c.UpdatedAtField>>
    ELSE IF c.DeletedAtField # "" THEN <<c.DeletedAtField, c.UpdatedAtField>>
    ELSE <<>>

\* C13: when a role that the call stamps is enabled but names a field that
\* is missing or is not a time.Time, the call panics and issues no
\* InsertOne, UpdateByID or DeleteOne: the collection is as it was.
C13_BadTimestampFieldPanics ==
    [][(/\ last'.op \in {"Create", "Update", "Delete"}
        /\ \E k \in 1..Len(StampedRoles(last'.op, cfg')) :
              /\ StampedRoles(last'.op, cfg')[k] # ""
              /\ ~ValidField(etype, StampedRoles(last'.op, cfg')[k], "Time")) =>
            /\ last'.panic
            /\ rstate' = "panicked"
            /\ last'.calls = <<>>
            /\ store' = store]_vars

C13_Witness ==
    /\ last.op = "Delete"
    /\ cfg.IdField = "ID"
    /\ cfg.DeletedAtField = "DeletedAt"
    /\ cfg.UpdatedAtField = "Missing"
    /\ rstate = "panicked"
    /\ ent["DeletedAt"] # 0
    /\ ent["ID"] \in DOMAIN store

---------------------------------------------------------------------------
\* More properties of the MockRepository.

\* C12: Create on a record whose identifier field is missing, unsettable or
\* not an ObjectID stops: it does not return success and MemoryDb is as it
\* was, with no entry under the hex form of the zero ObjectID.
C12_MockCreateStopsWithoutIdentifier ==
    [][(last'.op = "Create" /\ ~ValidIdField(cfg, etype)) =>
        /\ (last'.panic \/ last'.err)
        /\ MemoryDb' = MemoryDb
        /\ Hex(NilObjectID) \notin DOMAIN MemoryDb']_vars

\* C20: Create on a record whose identifier field already holds a non-zero
\* ObjectID keeps that identifier, so a second Create of the same instance
\* adds no entry under another key.
C20_MockCreateKeepsIdentifier ==
    [][(/\ last'.op = "Create"
        /\ ValidIdField(cfg, etype)
        /\ ent[cfg.IdField] # NilObjectID) =>
            /\ ent'[cfg.IdField] = ent[cfg.IdField]
            /\ DOMAIN MemoryDb' \subseteq DOMAIN MemoryDb \cup {Hex(ent[cfg.IdField])}]_vars

---------------------------------------------------------------------------
\* More properties of the Repository.

\* C16: a Create that does not panic assigns the new identifier, stamps the
\* created-at field with the current time when that role is enabled, and
\* issues exactly one InsertOne, of the record with that identifier. When
\* the insert fails Create returns the error, the collection is as it was,
\* and the identifier and the created-at value stay on the caller's record.
C16_CreateDoesNotRollBack ==
    [][(last'.op = "Create" /\ ~last'.panic) =>
        /\ ent'[cfg.IdField] = nextId + 1
        /\ nextId' = nextId + 1
        /\ cfg.CreatedAtField # "" => ent'[cfg.CreatedAtField] = clock
        /\ \A f \in FieldNames(etype) \ {cfg.IdField, cfg.CreatedAtField} : ent'[f] = ent[f]
        /\ last'.calls = <<Call("InsertOne", nextId + 1)>>
        /\ last'.err => store' = store
        /\ ~last'.err =>
              FindOneById(etype, store', nextId + 1, TRUE) = <<Decode(etype, Marshal(etype, ent'))>>]_vars

C16_Witness ==
    /\ last.op = "Create"
    /\ ~last.panic
    /\ last.err
    /\ cfg.CreatedAtField = "CreatedAt"
    /\ ent["ID"] = 1
    /\ ent["CreatedAt"] = 2
    /\ 1 \notin DOMAIN store

\* The call that ended in the current state is New (no operation since).
JustBuilt == last.op = "none"

---------------------------------------------------------------------------
\* The query operations of the Repository. A filter (bson.M) maps bson keys
\* to typed values; the store answers a call with a transport error, with no
\* document, with a document that fails to decode, or with documents.

\* primitive.ObjectIDFromHex: the identifier whose hex form the string is,
\* an error for any other string.
ObjectIDFromHex(s) ==
    IF \E id \in DOMAIN HexTable : HexTable[id] = s
    THEN [err |-> FALSE, id |-> CHOOSE id \in DOMAIN HexTable : HexTable[id] = s]
    ELSE [err |-> TRUE, id |-> NilObjectID]

\* bson.M{"_id": id}
IdFilter(id) == [key \in {"_id"} |-> [type |-> "ObjectID", val |-> id]]

\* The server's equality match of a stored document against a filter.
DocMatches(T, doc, query) ==
    \A key \in DOMAIN query :
        \E k \in 1..Len(T) :
            /\ BsonKey(T[k]) = key
            /\ T[k].type = query[key].type
            /\ key \in DOMAIN doc
            /\ doc[key] = query[key].val

Matching(T, st, query) == {id \in DOMAIN st : DocMatches(T, st[id], query)}

\* A FindOne that panics when the store reports an error.
FindOneResults_Must(T, st, query) ==
    {[panic |-> TRUE, outcome |-> "transport", res |-> <<>>]}
    \cup (IF Matching(T, st, query) = {}
          THEN {[panic |-> TRUE, outcome |-> "nomatch", res |-> <<>>]}
          ELSE {[panic |-> TRUE, outcome |-> "decode", res |-> <<>>]}
               \cup {[panic |-> FALSE, outcome |-> "ok", res |-> <<Decode(T, st[id])>>] :
                        id \in Matching(T, st, query)})

\* Repository.FindOne: the results the call can have, each with what the
\* store reported. <<>> is the nil pointer, <<e>> a pointer to the entity.
FindOneResults(T, st, query) ==
    {[panic |-> FALSE, outcome |-> "transport", res |-> <<>>]}
    \cup (IF Matching(T, st, query) = {}
          THEN {[panic |-> FALSE, outcome |-> "nomatch", res |-> <<>>]}
          ELSE {[panic |-> FALSE, outcome |-> "decode", res |-> <<>>]}
               \cup {[panic |-> FALSE, outcome |-> "ok", res |-> <<Decode(T, st[id])>>] :
                        id \in Matching(T, st, query)})

\* Repository.FindById
FindByIdResults(T, st, id) == FindOneResults(T, st, IdFilter(id))

\* Repository.FindByHexId
FindByHexIdResults(T, st, s) ==
    IF ObjectIDFromHex(s).err
    THEN {[panic |-> FALSE, outcome |-> "badhex", res |-> <<>>]}
    ELSE FindByIdResults(T, st, ObjectIDFromHex(s).id)

\* A []*T value: the nil slice, or a slice of pointers to entities.
NilSlice == [nil |-> TRUE, items |-> <<>>]
Slice(items) == [nil |-> FALSE, items |-> items]

\* The orders in which the elements of a set can be listed.
Orders(S) ==
    {s \in [1..Cardinality(S) -> S] : \A i, j \in 1..Cardinality(S) : s[i] = s[j] => i = j}

\* Repository.Find: cursor.All leaves the declared nil slice or an empty
\* one, depending on the driver, when no document matches.
FindResults(T, st, query) ==
    {[panic |-> FALSE, outcome |-> "transport", res |-> NilSlice]}
    \cup (IF Matching(T, st, query) = {}
          THEN {[panic |-> FALSE, outcome |-> "nomatch", res |-> r] : r \in {NilSlice, Slice(<<>>)}}
          ELSE {[panic |-> FALSE, outcome |-> "decode", res |-> NilSlice]}
               \cup {[panic |-> FALSE, outcome |-> "ok",
                      res |-> Slice([i \in 1..Len(o) |-> Decode(T, st[o[i]])])] :
                        o \in Orders(Matching(T, st, query))})

\* The record of a query: the operation, its argument, what the store
\* reported and the result returned.
QueryLast(op, arg, r) ==
    [op |-> op, panic |-> r.panic, err |-> r.outcome # "ok", calls |-> <<>>,
     stored |-> FALSE, res |-> r.res, outcome |-> r.outcome, arg |-> arg]

QueryOps == {"FindByHexId", "FindById", "FindOne", "Find"}

\* The configurations of the repositories that are queried.
QueryConfigs ==
    [MongoClient : {TRUE}, DbName : {"test_db"}, CollectionName : {""},
     Context : {"nil"}, IdField : {""},
     CreatedAtField : {"", "CreatedAt"}, UpdatedAtField : {""},
     DeletedAtField : {""}]

\* The strings passed to FindByHexId.
HexInputs == {Hex(id) : id \in ObjectIDs} \cup {"", "not-a-hex-id"}

\* The filters passed to FindOne and Find.
Filters ==
    {IdFilter(id) : id \in ObjectIDs}
    \cup {<<>>}
    \cup {[key \in {"name"} |-> [type |-> "string", val |-> n]] : n \in Names}
    \cup {[key \in {"missingField"} |-> [type |-> "int", val |-> 1]]}

InitQuery ==
    /\ etype \in EntityTypes
    /\ cfgGiven \in QueryConfigs
    /\ cfg = cfgGiven
    /\ rstate = "unbuilt"
    /\ ent = ZeroEntity(etype)
    /\ store = <<>>
    /\ MemoryDb = <<>>
    /\ clock = 1
    /\ nextId = 0
    /\ last = NoCall
    /\ mq = <<>>
    /\ procs = <<>>

ApplyQuery(op, arg, r) ==
    /\ last' = QueryLast(op, arg, r)
    /\ rstate' = IF r.panic THEN "panicked" ELSE rstate
    /\ UNCHANGED <<procs, etype, cfgGiven, cfg, ent, store, MemoryDb, clock, nextId, mq>>

FindByHexId ==
    /\ rstate = "ready"
    /\ \E s \in HexInputs : \E r \in FindByHexIdResults(etype, store, s) :
        ApplyQuery("FindByHexId", s, r)

FindById ==
    /\ rstate = "ready"
    /\ \E id \in ObjectIDs : \E r \in FindByIdResults(etype, store, id) :
        ApplyQuery("FindById", id, r)

FindOne ==
    /\ rstate = "ready"
    /\ \E q \in Filters : \E r \in FindOneResults(etype, store, q) :
        ApplyQuery("FindOne", q, r)

Find ==
    /\ rstate = "ready"
    /\ \E q \in Filters : \E r \in FindResults(etype, store, q) :
        ApplyQuery("Find", q, r)

NextQuery ==
    \/ New
    \/ CallerNew
    \/ Create
    \/ FindByHexId
    \/ FindById
    \/ FindOne
    \/ Find

SpecQuery == InitQuery /\ [][NextQuery]_vars


\* What an operation returns when the store holds no matching document.
NoMatchResults(op) == IF op = "Find" THEN {NilSlice, Slice(<<>>)} ELSE {<<>>}

\* C14: a store error is never swallowed. The result of a FindById, FindOne
\* or Find in which the store reported a transport or decoding error differs
\* from every result the operation gives when no document matches.
C14_QueryErrorsDistinguishable ==
    (last.op \in {"FindById", "FindOne", "Find"} /\ last.outcome \in {"transport", "decode"}) =>
        last.res \notin NoMatchResults(last.op)

\* The result holds no record.
Absent(op, res) == IF op = "Find" THEN res.items = <<>> ELSE res = <<>>

\* C15: no query operation panics because of what the store answers. When
\* the store reports no match, a decode error or a transport error, or the
\* string given to FindByHexId is not the hex form of an ObjectID, the call
\* returns a result holding no record; the repository, its configuration,
\* the collection and the caller's records are as before.
C15_QueriesNeverPanic ==
    [][last'.op \in QueryOps =>
        /\ ~last'.panic
        /\ rstate' = "ready"
        /\ cfg' = cfg
        /\ store' = store
        /\ ent' = ent
        /\ last'.outcome # "ok" => Absent(last'.op, last'.res)
        /\ last'.outcome = "ok" => ~Absent(last'.op, last'.res)]_vars

C15_Witness ==
    /\ last.op = "FindByHexId"
    /\ last.outcome = "badhex"
    /\ last.arg = "not-a-hex-id"
    /\ last.res = <<>>
    /\ store # <<>>
    /\ rstate = "ready"

---------------------------------------------------------------------------
\* More properties of matchesQuery.

\* The name part of a field's bson tag: the text before the first comma,
\* the field name when there is no tag.
TagNamePart(fd) == IF Len(fd.tag) > 0 /\ fd.tag[1] # "" THEN fd.tag[1] ELSE fd.name

\* C18: the name matchesQuery compares with a filter key is the name part
\* of the field's bson tag. A filter of one key matches exactly when the key
\* is the name part of the tag of some field (the field's own name when it
\* has no tag) and the field's value is deeply equal to the filter's value.
C18_KeyIsTagNamePart ==
    (mq.done /\ Cardinality(DOMAIN mq.query) = 1) =>
        LET key == CHOOSE k \in DOMAIN mq.query : TRUE IN
        mq.result <=>
            \E k \in 1..Len(etype) :
                /\ TagNamePart(etype[k]) = key
                /\ DeepEqual(etype[k].type, mq.entity[etype[k].name], mq.query[key])

---------------------------------------------------------------------------
\* The query operations of the MockRepository.

\* The keys of the entries that match the query.
MockMatching(T, db, query) == {k \in DOMAIN db : matchesQuery(T, db[k], query)}

\* MockRepository.FindOne: the first match in the order the map is ranged
\* over, which is any match; <<>> is nil.
MockFindOneResults(T, db, query) ==
    IF MockMatching(T, db, query) = {} THEN {<<>>}
    ELSE {<<db[k]>> : k \in MockMatching(T, db, query)}

\* The subsequence of the keys in o that match.
RECURSIVE MatchingInOrder(_, _, _, _)
MatchingInOrder(T, db, query, o) ==
    IF o = <<>> THEN <<>>
    ELSE IF matchesQuery(T, db[Head(o)], query)
         THEN <<Head(o)>> \o MatchingInOrder(T, db, query, Tail(o))
         ELSE MatchingInOrder(T, db, query, Tail(o))

\* MockRepository.Find: results collects &entity for each match, in the
\* order o the map is ranged over. Built with per-iteration loop variables
\* (go 1.22 or later in go.mod) each pointer has its own entity; built with
\* one loop variable for the whole loop (earlier go versions) every pointer
\* is to that variable, which ends holding the last entry ranged over.
MockFindResults(T, db, query) ==
    {IF MatchingInOrder(T, db, query, o) = <<>> THEN NilSlice
     ELSE Slice([i \in 1..Len(MatchingInOrder(T, db, query, o)) |->
                    IF perIteration THEN db[MatchingInOrder(T, db, query, o)[i]]
                    ELSE db[o[Len(o)]]]) :
        o \in Orders(DOMAIN db), perIteration \in BOOLEAN}

\* The record of a MockRepository query: the operation, the query, the result.
MockQueryLast(op, query, res) ==
    [op |-> op, panic |-> FALSE, err |-> FALSE, calls |-> <<>>, stored |-> FALSE,
     res |-> res, arg |-> query]

\* The configurations of the mocks that are queried.
MockFindConfigs ==
    [IdField : {""}, CreatedAtField : {""}, UpdatedAtField : {""}, DeletedAtField : {""}]

\* The queries passed to the mock's FindOne and Find.
MockFilters ==
    {<<>>}
    \cup {[key \in {"name"} |-> [type |-> "string", val |-> n]] : n \in Names}
    \cup {[key \in {"_id"} |-> [type |-> "ObjectID", val |-> 1]]}
    \cup {[key \in {"missingField"} |-> [type |-> "int", val |-> 1]]}

InitMockFind ==
    /\ etype \in EntityTypes
    /\ cfgGiven \in MockFindConfigs
    /\ cfg = cfgGiven
    /\ rstate = "unbuilt"
    /\ ent = ZeroEntity(etype)
    /\ store = <<>>
    /\ MemoryDb = <<>>
    /\ clock = 1
    /\ nextId = 0
    /\ last = NoCall
    /\ mq = <<>>
    /\ procs = <<>>

MockFindOne ==
    /\ rstate = "ready"
    /\ \E q \in MockFilters : \E r \in MockFindOneResults(etype, MemoryDb, q) :
        last' = MockQueryLast("FindOne", q, r)
    /\ UNCHANGED <<procs, etype, cfgGiven, cfg, rstate, ent, store, MemoryDb, clock, nextId, mq>>

MockFind ==
    /\ rstate = "ready"
    /\ \E q \in MockFilters : \E r \in MockFindResults(etype, MemoryDb, q) :
        last' = MockQueryLast("Find", q, r)
    /\ UNCHANGED <<procs, etype, cfgGiven, cfg, rstate, ent, store, MemoryDb, clock, nextId, mq>>

NextMockFind ==
    \/ NewMock
    \/ MockCallerNew
    \/ MockCreate
    \/ MockFindOne
    \/ MockFind

SpecMockFind == InitMockFind /\ [][NextMockFind]_vars

\* The stored records that match the query of the last call.
MatchingRecords == {MemoryDb[k] : k \in MockMatching(etype, MemoryDb, last.arg)}

---------------------------------------------------------------------------
\* Aggregate, the pass-through to the driver's aggregation.

\* What Collection() returns: the collection CollectionName of database DbName.
CollectionOf(c) == [kind |-> "collection", db |-> c.DbName, name |-> c.CollectionName]

\* What Database() returns: the database DbName.
DatabaseOf(c) == [kind |-> "database", db |-> c.DbName, name |-> ""]

\* Repository.Aggregate: one Aggregate call on r.Database() with the
\* configured context, the pipeline and the options; the cursor and the
\* error of the driver are returned as they come (<<>> is the nil cursor).
AggregateResult(c, pipeline, opts, ok) ==
    [panic |-> FALSE, err |-> ~ok,
     calls |-> <<[call |-> "Aggregate", on |-> DatabaseOf(c), ctx |-> c.Context,
                  pipeline |-> pipeline, opts |-> opts]>>,
     res |-> IF ok THEN <<[cursor |-> pipeline]>> ELSE <<>>]

\* The pipelines and options passed to Aggregate.
Pipelines == {<<"$match">>, <<"$match", "$group">>}
AggregateOptions == {<<>>, <<"batchSize">>}

Aggregate ==
    /\ rstate = "ready"
    /\ \E p \in Pipelines, o \in AggregateOptions, ok \in BOOLEAN :
        LET r == AggregateResult(cfg, p, o, ok) IN
        last' = [op |-> "Aggregate", panic |-> r.panic, err |-> r.err, calls |-> r.calls,
                 stored |-> FALSE, res |-> r.res, arg |-> <<p, o>>]
    /\ UNCHANGED <<procs, etype, cfgGiven, cfg, rstate, ent, store, MemoryDb, clock, nextId, mq>>

NextAggregate ==
    \/ New
    \/ CallerNew
    \/ Create
    \/ Aggregate

SpecAggregate == InitQuery /\ [][NextAggregate]_vars

\* C21: Aggregate runs the given pipeline on the collection of the
\* repository, the one Collection() returns and Create, Find, Update and
\* Delete work on, hands pipeline and options over unchanged, and stamps
\* nothing: the caller's record and the stored documents are as before.
C21_AggregateOnCollection ==
    [][last'.op = "Aggregate" =>
        /\ Len(last'.calls) = 1
        /\ last'.calls[1].call = "Aggregate"
        /\ last'.calls[1].on = CollectionOf(cfg)
        /\ last'.calls[1].pipeline = last'.arg[1]
        /\ last'.calls[1].opts = last'.arg[2]
        /\ ent' = ent
        /\ store' = store]_vars

---------------------------------------------------------------------------
\* More properties of the MockRepository: keys and failed updates.

\* C22: in a mock whose identifier field is valid, every entry of MemoryDb
\* is keyed by the hex form of the identifier of the record stored under
\* it, so no two entries hold the same identifier.
C22_MockKeyIsHexOfIdentifier ==
    (rstate # "unbuilt" /\ ValidIdField(cfg, etype)) =>
        /\ \A k \in DOMAIN MemoryDb : k = Hex(MemoryDb[k][cfg.IdField])
        /\ \A j, k \in DOMAIN MemoryDb :
              MemoryDb[j][cfg.IdField] = MemoryDb[k][cfg.IdField] => j = k

C22_Witness ==
    /\ last.op = "Update"
    /\ ValidIdField(cfg, etype)
    /\ Cardinality(DOMAIN MemoryDb) = 2
    /\ last.stored
    /\ MemoryDb[Hex(1)]["ID"] = 1
    /\ MemoryDb[Hex(2)]["ID"] = 2

\* C23: an Update that reports not-found changes nothing: MemoryDb is as it
\* was and every field of the caller's record, the updated-at field
\* included, has the value it had before the call.
C23_MockUpdateNotFoundChangesNothing ==
    [][(last'.op = "Update" /\ last'.err) =>
        /\ MemoryDb' = MemoryDb
        /\ ent' = ent]_vars

---------------------------------------------------------------------------
\* Pointers handed out by the MockRepository. MemoryDb is a map[string]T:
\* it holds entity values, and what a caller gets is a pointer to a copy,
\* modelled by the entity value itself. A pointer into the map's own storage
\* is [ref |-> key].

IsRef(p) == "ref" \in DOMAIN p

\* The entity a pointer points to.
Pointee(db, p) == IF IsRef(p) THEN db[p.ref] ELSE p

\* MemoryDb after the caller assigns v to the field through the pointer.
WriteThrough(db, p, field, v) ==
    IF IsRef(p) THEN [db EXCEPT ![p.ref] = [db[p.ref] EXCEPT ![field] = v]] ELSE db

\* The pointers a query returned.
Returned(l) == IF l.op = "Find" THEN l.res.items ELSE l.res

MockFindById ==
    /\ rstate = "ready"
    /\ \E id \in 0..MaxMockId :
        last' = MockQueryLast("FindById", id, MockFindByIdResult(MemoryDb, id))
    /\ UNCHANGED <<procs, etype, cfgGiven, cfg, rstate, ent, store, MemoryDb, clock, nextId, mq>>

\* The caller changes the Name of a record a query returned, then lets go
\* of the result.
EditReturned ==
    /\ rstate = "ready"
    /\ last.op \in {"FindById", "FindOne", "Find"}
    /\ \E i \in 1..Len(Returned(last)) :
        \E n \in Names \ {Pointee(MemoryDb, Returned(last)[i])["Name"]} :
            /\ MemoryDb' = WriteThrough(MemoryDb, Returned(last)[i], "Name", n)
            /\ last' = MockQueryLast("EditReturned",
                                     Pointee(MemoryDb, Returned(last)[i])[cfg.IdField], <<>>)
    /\ UNCHANGED <<procs, etype, cfgGiven, cfg, rstate, ent, store, clock, nextId, mq>>

NextMockCopy ==
    \/ NewMock
    \/ CallerEdit
    \/ MockCreate
    \/ MockUpdate
    \/ MockFindById
    \/ MockFindOne
    \/ MockFind
    \/ EditReturned

SpecMockCopy == InitMockFind /\ [][NextMockCopy]_vars

\* What FindById gives for the identifier: <<>> or the record's values.
Lookup(db, id) ==
    IF MockFindByIdResult(db, id) = <<>> THEN <<>>
    ELSE <<Pointee(db, MockFindByIdResult(db, id)[1])>>

\* C24: the mock holds and returns copies. A step that is not a Create or
\* an Update of the mock, in particular the caller changing a field of its
\* own instance or of a record that FindById, FindOne or Find returned,
\* leaves the result of FindById for every identifier as it was: the values
\* as of the last Create or Update that stored them.
C24_MockHoldsCopies ==
    [][last'.op \notin {"Create", "Update"} =>
        \A id \in 0..MaxMockId : Lookup(MemoryDb', id) = Lookup(MemoryDb, id)]_vars

C24_Witness ==
    /\ last.op = "EditReturned"
    /\ last.arg = 1
    /\ ent["ID"] = 1
    /\ ent["Name"] = "Jon"
    /\ Lookup(MemoryDb, 1) # <<>>
    /\ Lookup(MemoryDb, 1)[1]["Name"] = ""

---------------------------------------------------------------------------
\* EntityReflection used by several goroutines at once, each on its own
\* entity, all with the same *Config. Each goroutine runs
\*     er := NewEntityReflection(config, &entity); er.<method>()
\* as Repository.Create and Update do. The accesses to the configuration are
\* not synchronised. In this specification config.IdField is kept as the two
\* words of its string header, which a store writes one after the other.

Procs == 1..NumProcs

\* The string header of "" and of "ID".
EmptyHeader == [ptr |-> "", len |-> 0]
IDHeader == [ptr |-> "ID", len |-> 2]

\* The name no field has: what a header with the length of "ID" and the
\* data pointer of "" reads as.
TornName == "<torn>"

\* The string a load of the header gives.
StringOf(h) ==
    IF h.len = 0 THEN ""
    ELSE IF h.ptr = "ID" THEN "ID"
    ELSE TornName

\* The configuration as a goroutine reads it at this moment.
ConfigRead(c) == [c EXCEPT !.IdField = StringOf(c.IdField)]

ERMethods == {"SetNewID", "GetID", "SetCreatedAt", "SetUpdateAt", "SetDeletedAt"}

\* The configurations the goroutines share.
ConcConfigs ==
    [MongoClient : {TRUE}, DbName : {"test_db"}, CollectionName : {""},
     Context : {"nil"}, IdField : {EmptyHeader, IDHeader},
     CreatedAtField : {"CreatedAt"}, UpdatedAtField : {"UpdatedAt"},
     DeletedAtField : {"DeletedAt"}]

InitConc ==
    /\ etype \in EntityTypes
    /\ cfgGiven \in ConcConfigs
    /\ cfg = cfgGiven
    /\ rstate = "ready"
    /\ ent = <<>>
    /\ store = <<>>
    /\ MemoryDb = <<>>
    /\ clock = 1
    /\ nextId = 0
    /\ last = NoCall
    /\ mq = <<>>
    /\ procs \in [Procs -> [pc : {"new"}, method : ERMethods, entity : {ZeroEntity(etype)}]]

\* NewEntityReflection, the test `config.IdField == ""`.
ProcCheckIdField(p) ==
    /\ rstate = "ready"
    /\ procs[p].pc = "new"
    /\ procs' = [procs EXCEPT ![p].pc = IF StringOf(cfg.IdField) = "" THEN "assign" ELSE "call"]
    /\ UNCHANGED <<etype, cfgGiven, cfg, rstate, ent, store, MemoryDb, clock, nextId, last, mq>>

\* NewEntityReflection, `config.IdField = "ID"`: the store of the first word
\* of the header, the data pointer or the length.
ProcAssignFirst(p) ==
    /\ rstate = "ready"
    /\ procs[p].pc = "assign"
    /\ \E word \in {"ptr", "len"} :
        /\ cfg' = [cfg EXCEPT !.IdField =
                      IF word = "ptr" THEN [cfg.IdField EXCEPT !.ptr = "ID"]
                      ELSE [cfg.IdField EXCEPT !.len = 2]]
        /\ procs' = [procs EXCEPT ![p].pc = IF word = "ptr" THEN "assignLen" ELSE "assignPtr"]
    /\ UNCHANGED <<etype, cfgGiven, rstate, ent, store, MemoryDb, clock, nextId, last, mq>>

\* The store of the other word.
ProcAssignSecond(p) ==
    /\ rstate = "ready"
    /\ procs[p].pc \in {"assignLen", "assignPtr"}
    /\ cfg' = [cfg EXCEPT !.IdField =
                  IF procs[p].pc = "assignPtr" THEN [cfg.IdField EXCEPT !.ptr = "ID"]
                  ELSE [cfg.IdField EXCEPT !.len = 2]]
    /\ procs' = [procs EXCEPT ![p].pc = "call"]
    /\ UNCHANGED <<etype, cfgGiven, rstate, ent, store, MemoryDb, clock, nextId, last, mq>>

\* The method, on the goroutine's own entity, with the configuration as it
\* reads it now.
MethodResult(m, c, T, e, newId, now) ==
    IF m = "SetNewID" THEN SetNewID(c, T, e, newId)
    ELSE IF m = "GetID" THEN [panic |-> GetID(c, T, e).panic, e |-> e]
    ELSE IF m = "SetCreatedAt" THEN SetCreatedAt(c, T, e, now)
    ELSE IF m = "SetUpdateAt" THEN SetUpdateAt(c, T, e, now)
    ELSE SetDeletedAt(c, T, e, now)

\* A panic in one goroutine ends the program.
ProcCall(p) ==
    /\ rstate = "ready"
    /\ procs[p].pc = "call"
    /\ LET r == MethodResult(procs[p].method, ConfigRead(cfg), etype,
                             procs[p].entity, nextId + 1, clock) IN
        /\ procs' = [procs EXCEPT ![p].pc = IF r.panic THEN "panicked" ELSE "done",
                                  ![p].entity = r.e]
        /\ rstate' = IF r.panic THEN "panicked" ELSE rstate
        /\ nextId' = IF procs[p].method = "SetNewID" /\ ~r.panic THEN nextId + 1 ELSE nextId
    /\ UNCHANGED <<etype, cfgGiven, cfg, ent, store, MemoryDb, clock, last, mq>>

NextConc ==
    \/ \E p \in Procs : ProcCheckIdField(p)
    \/ \E p \in Procs : ProcAssignFirst(p)
    \/ \E p \in Procs : ProcAssignSecond(p)
    \/ \E p \in Procs : ProcCall(p)

SpecConc == InitConc /\ [][NextConc]_vars

\* The fields of an entity that are set (not the zero value).
SetFields(T, e) ==
    {f \in FieldNames(T) : e[f] # ZeroOf(T[FieldByName(T, f)].type)}

\* The fields the method sets when the calls run one after another.
FieldsSetBy(m) ==
    IF m = "SetNewID" THEN {"ID"}
    ELSE IF m = "SetCreatedAt" THEN {"CreatedAt"}
    ELSE IF m = "SetUpdateAt" THEN {"UpdatedAt"}
    ELSE IF m = "SetDeletedAt" THEN {"DeletedAt"}
    ELSE {}

\* The program has ended: every goroutine is done, or one has panicked.
Ended(ps, rs) == rs = "panicked" \/ \A p \in Procs : ps[p].pc = "done"

\* C25: lifecycle calls running at the same time on distinct records with
\* one shared configuration do not interfere. Every step of a goroutine
\* writes nothing but fields of its own record (the configuration and the
\* other records are as before), and when the program has ended each
\* record has the fields set that its call sets when the calls run one
\* after another.
C25_ConcurrentCallsDoNotInterfere ==
    [][/\ cfg' = cfg
       /\ \A p \in Procs :
            procs'[p] # procs[p] =>
                \A q \in Procs \ {p} : procs'[q] = procs[q]
       /\ Ended(procs', rstate') =>
            \A p \in Procs :
                /\ procs'[p].pc = "done"
                /\ SetFields(etype, procs'[p].entity) = FieldsSetBy(procs'[p].method)]_vars

=============================================================================
